---- MODULE Spec2Model ----
(***************************************************************************)
(* The detector process of detector.cpp (the producer of the shared        *)
(* DetectionData record) together with the System V shared memory segment  *)
(* it writes and a polling consumer of that segment.                       *)
(*                                                                         *)
(* Every store to the segment is one step, so that the states between two  *)
(* stores of one frame's publish are states of the model: the consumer is  *)
(* another process and can read the segment in any of them.  The memset of *)
(* line 72 is one step, and so is one read of the whole record by the      *)
(* consumer: the states a finer grain would add are not needed to decide   *)
(* the properties below.                                                   *)
(*                                                                         *)
(* Reals: normalized network outputs and scores are counted in             *)
(* thousandths (0.5 is 500); pixel quantities are integers as in the code. *)
(* Sequences are 1-based: C++ index i is position i + 1.                   *)
(***************************************************************************)
EXTENDS Integers, Sequences, FiniteSets, TLC

(***************************************************************************)
(* Program constants                                                       *)
(***************************************************************************)
\* boxes[50]
CAPACITY == 50
\* float confThreshold = 0.5, in thousandths
confThreshold == 500
\* float nmsThreshold = 0.4, in thousandths
nmsThreshold == 400

(***************************************************************************)
(* Bounds of the model                                                     *)
(***************************************************************************)
\* the longest video, in frames
MaxFrames == 3

Fields == <<"x", "y", "width", "height", "confidence">>

\* One BBox, as memset leaves it.
ZeroBBox == [x |-> 0, y |-> 0, width |-> 0, height |-> 0, confidence |-> 0]

\* The whole DetectionData record, as memset (or a fresh segment) leaves it.
ZeroRecord ==
    [frame_number |-> 0,
     num_detections |-> 0,
     boxes |-> [k \in 1..CAPACITY |-> ZeroBBox],
     processing_complete |-> FALSE]

(***************************************************************************)
(* Integer arithmetic of C++: division and float-to-int conversion         *)
(* truncate toward zero.                                                   *)
(***************************************************************************)
TruncDiv(a, b) == IF a >= 0 THEN a \div b ELSE -((-a) \div b)

Min(a, b) == IF a < b THEN a ELSE b

Max(a, b) == IF a > b THEN a ELSE b

(***************************************************************************)
(* cv::Rect                                                                *)
(***************************************************************************)
Rect(left, top, width, height) ==
    [x |-> left, y |-> top, width |-> width, height |-> height]

RectArea(r) == r.width * r.height

\* cv::Rect operator&: the intersection, the empty Rect() when there is none.
RectAnd(a, b) ==
    LET x1 == Max(a.x, b.x)
        y1 == Max(a.y, b.y)
        w  == Min(a.x + a.width, b.x + b.width) - x1
        h  == Min(a.y + a.height, b.y + b.height) - y1
    IN  IF w <= 0 \/ h <= 0 THEN Rect(0, 0, 0, 0) ELSE Rect(x1, y1, w, h)

(***************************************************************************)
(* The frames a video can hold.  A frame is its size and what the network  *)
(* returns for it: rows of cx, cy, w, h (normalized, in thousandths) and   *)
(* the class scores (position 1 is class 0, 'person').                     *)
(***************************************************************************)
Row(cx, cy, w, h, scores) ==
    [cx |-> cx, cy |-> cy, w |-> w, h |-> h, scores |-> scores]

\* n persons on a grid of disjoint squares, confidences all different and
\* not in row order.
GridRows(n) ==
    [k \in 1..n |->
        Row(50 + 100 * ((k - 1) % 10), 50 + 100 * ((k - 1) \div 10), 50, 50,
            <<600 + 5 * ((7 * (k - 1)) % 60), 100>>)]

FewRows ==
    << Row(500, 500, 200, 400, <<900, 50>>),
       Row(510, 505, 200, 400, <<800, 50>>),
       Row(150, 250, 101, 201, <<700, 10>>),
       Row(800, 800, 100, 100, <<450, 20>>),
       Row(333, 777, 100, 100, <<300, 950>>),
       Row(600, 400, 100, 300, <<950, 40>>),
       Row(200, 700, 100, 100, <<500, 30>>) >>

Scenes == {"none", "few", "full", "over"}

Frame(scene) ==
    CASE scene = "none" -> [cols |-> 640, rows |-> 480, outs |-> << >>]
      [] scene = "few"  -> [cols |-> 640, rows |-> 480, outs |-> FewRows]
      [] scene = "full" -> [cols |-> 1000, rows |-> 1000, outs |-> GridRows(CAPACITY)]
      [] scene = "over" -> [cols |-> 1000, rows |-> 1000, outs |-> GridRows(CAPACITY + 10)]

(***************************************************************************)
(* Lines 104-126: the detection filter.                                    *)
(***************************************************************************)
RECURSIVE MaxLocFrom(_, _, _)
\* cv::minMaxLoc over one row of scores: the position of the first maximum.
MaxLocFrom(scores, k, best) ==
    IF k > Len(scores) THEN best
    ELSE MaxLocFrom(scores, k + 1, IF scores[k] > scores[best] THEN k ELSE best)

\* classIdPoint.x, 0-based as in the code
ClassId(scores) == MaxLocFrom(scores, 2, 1) - 1

Confidence(scores) == scores[MaxLocFrom(scores, 2, 1)]

\* (int)(data[c] * frame.cols): the product of a normalized value and a size,
\* truncated toward zero.
ToPixels(norm, size) == TruncDiv(norm * size, 1000)

\* Rect(left, top, width, height) of one row
RowRect(row, frame) ==
    LET centerX == ToPixels(row.cx, frame.cols)
        centerY == ToPixels(row.cy, frame.rows)
        width   == ToPixels(row.w, frame.cols)
        height  == ToPixels(row.h, frame.rows)
        left    == centerX - TruncDiv(width, 2)
        top     == centerY - TruncDiv(height, 2)
    IN  Rect(left, top, width, height)

\* Class 0 is 'person'
Passes(row) == ClassId(row.scores) = 0 /\ Confidence(row.scores) > confThreshold

\* The rows that pass, in the order of the loops: what is pushed onto
\* confidences and boxes.
Filter(frame) == SelectSeq(frame.outs, Passes)

FilterConfidences(frame) ==
    LET kept == Filter(frame)
    IN  [k \in 1..Len(kept) |-> Confidence(kept[k].scores)]

FilterBoxes(frame) ==
    LET kept == Filter(frame)
    IN  [k \in 1..Len(kept) |-> RowRect(kept[k], frame)]

(***************************************************************************)
(* Line 130: cv::dnn::NMSBoxes(boxes, confidences, confThreshold,          *)
(* nmsThreshold, indices).  Indices are positions in boxes (1-based here). *)
(***************************************************************************)
\* The positions whose score exceeds the threshold.
AboveThreshold(scores, threshold) ==
    {k \in 1..Len(scores) : scores[k] > threshold}

\* Where std::stable_sort, descending by score, puts position k: behind every
\* position with a greater score and every earlier position with the same one.
Rank(k, scores, threshold) ==
    1 + Cardinality({j \in AboveThreshold(scores, threshold) :
                        scores[j] > scores[k] \/ (scores[j] = scores[k] /\ j < k)})

\* The positions whose score exceeds the threshold, by descending score.
SortedIndices(scores, threshold) ==
    LET above == AboveThreshold(scores, threshold)
    IN  [r \in 1..Cardinality(above) |->
            CHOOSE k \in above : Rank(k, scores, threshold) = r]

\* 1 - jaccardDistance(a, b) <= threshold, in integers; two rectangles of
\* area 0 count as equal (overlap 1).
OverlapAtMost(a, b, threshold) ==
    LET Aa  == RectArea(a)
        Ab  == RectArea(b)
        Aab == RectArea(RectAnd(a, b))
    IN  IF Aa + Ab <= 0 THEN 1000 <= threshold
        ELSE Aab * 1000 <= threshold * (Aa + Ab - Aab)

\* One turn of the suppression loop: the candidate is kept unless it
\* overlaps one already kept.
KeepOrDrop(c, kept, rects, threshold) ==
    IF \A j \in 1..Len(kept) : OverlapAtMost(rects[c], rects[kept[j]], threshold)
    THEN Append(kept, c)
    ELSE kept

RECURSIVE Greedy(_, _, _, _, _, _)
\* The suppression loop over order[lo..hi], best score first, starting from
\* kept.  (The range is halved, and the first half's result bound as a
\* value, to keep the evaluation shallow; the turns are taken in order.)
Greedy(order, lo, hi, kept, rects, threshold) ==
    IF lo > hi THEN kept
    ELSE IF lo = hi THEN KeepOrDrop(order[lo], kept, rects, threshold)
    ELSE LET mid == (lo + hi) \div 2
         IN  CHOOSE all \in
                 { Greedy(order, mid + 1, hi, half, rects, threshold) :
                      half \in {Greedy(order, lo, mid, kept, rects, threshold)} } :
                 TRUE

NMSBoxes(rects, scores, score_threshold, nms_threshold) ==
    LET order == SortedIndices(scores, score_threshold)
    IN  Greedy(order, 1, Len(order), << >>, rects, nms_threshold)

(***************************************************************************)
(* Lines 132-144: what one frame's publish stores, store by store.         *)
(***************************************************************************)
\* frameCount++
NextFrameCount(count) == count + 1

\* NumDetections without the cap: (int)indices.size()
NumDetectionsUncapped(idxs) == Len(idxs)

\* min((int)indices.size(), 50)
NumDetections(idxs) == Min(Len(idxs), CAPACITY)

\* FieldValue without the indirection through indices: boxes[k] and
\* confidences[k]
FieldValueUnmapped(k, f, idxs, rects, scores) ==
    CASE f = "x"          -> rects[k].x
      [] f = "y"          -> rects[k].y
      [] f = "width"      -> rects[k].width
      [] f = "height"     -> rects[k].height
      [] f = "confidence" -> scores[k]

\* FieldValue with box.height stored where the confidence belongs
FieldValueHeightForConfidence(k, f, idxs, rects, scores) ==
    LET idx == idxs[k]
        box == rects[idx]
    IN  CASE f = "x"          -> box.x
          [] f = "y"          -> box.y
          [] f = "width"      -> box.width
          [] f = "height"     -> box.height
          [] f = "confidence" -> box.height

\* What the loop body stores into field f of boxes[k]: idx = indices[k],
\* box = boxes[idx], and confidences[idx] (k is 1-based).
FieldValue(k, f, idxs, rects, scores) ==
    LET idx == idxs[k]
        box == rects[idx]
    IN  CASE f = "x"          -> box.x
          [] f = "y"          -> box.y
          [] f = "width"      -> box.width
          [] f = "height"     -> box.height
          [] f = "confidence" -> scores[idx]

\* The entry boxes[k] once the loop body has run for it.
Entry(k, idxs, rects, scores) ==
    [f \in {Fields[n] : n \in 1..Len(Fields)} |-> FieldValue(k, f, idxs, rects, scores)]

\* The record once all the stores of one frame are done, from the record
\* they started on: entries from num_detections on keep what they held.
Published(rec, count, idxs, rects, scores) ==
    [frame_number |-> count,
     num_detections |-> NumDetections(idxs),
     boxes |-> [k \in 1..CAPACITY |->
                  IF k <= NumDetections(idxs) THEN Entry(k, idxs, rects, scores)
                  ELSE rec.boxes[k]],
     processing_complete |-> rec.processing_complete]

\* Published, from a frame: lines 89-144 as one.  (The set binds the record
\* and the indices as values, so that they are computed once.)
PublishedFrame(rec, count, frame) ==
    LET rects  == FilterBoxes(frame)
        scores == FilterConfidences(frame)
    IN  CHOOSE r \in { Published(from, count, ix, rects, scores) :
                          from \in {rec},
                          ix \in {NMSBoxes(rects, scores, confThreshold, nmsThreshold)} } :
            TRUE

(***************************************************************************)
(* What an earlier run of the detector can have left in the segment: the   *)
(* record of a run that ended normally, and of one that was killed.        *)
(***************************************************************************)
StaleRecords ==
    { [PublishedFrame(PublishedFrame(ZeroRecord, 1, Frame("over")), 2, Frame("few"))
          EXCEPT !.processing_complete = TRUE],
      PublishedFrame(ZeroRecord, 1, Frame("few")) }

\* exit status of a process whose main returns r
ExitStatus(r) == r % 256

Running == [how |-> "running", code |-> 0]

Returned(r) == [how |-> "return", code |-> ExitStatus(r)]

\* ended by a signal: 2 is SIGINT, 6 is SIGABRT
Signaled(sig) == [how |-> "signal", code |-> sig]

(***************************************************************************)
(* State                                                                   *)
(***************************************************************************)
VARIABLES
    pc,           \* where main is
    exit,         \* how the process ended, Running until then
    decoded,      \* frames cap has delivered so far
    frame,        \* the scene of the current frame, "empty" for an empty Mat
    frameCount,
    boxes, confidences, indices,   \* the vectors of the current iteration
    i, fld,       \* the publish loop: index i, next field of boxes[i]
    shmExists,    \* the segment exists in the system
    shm,          \* its contents (ZeroRecord while it does not exist)
    attached,     \* the detector has it mapped
    rdr,          \* the consumer: "detached", "polling", "ended"
    fnWrites,     \* history: the values stored to frame_number, in order
    prevRec       \* history: the record as the last complete publish
                  \* (or the initialization) left it

vars == <<pc, exit, decoded, frame, frameCount, boxes, confidences, indices,
          i, fld, shmExists, shm, attached, rdr, fnWrites, prevRec>>

locals == <<decoded, frame, frameCount, boxes, confidences, indices, i, fld>>

Init ==
    /\ pc = "args"
    /\ exit = Running
    /\ decoded = 0
    /\ frame = "empty"
    /\ frameCount = 0
    /\ boxes = << >>
    /\ confidences = << >>
    /\ indices = << >>
    /\ i = 0
    /\ fld = 1
    /\ \/ shmExists = FALSE /\ shm = ZeroRecord
       \/ shmExists = TRUE /\ shm \in StaleRecords
    /\ attached = FALSE
    /\ rdr = "detached"
    /\ fnWrites = << >>
    /\ prevRec = shm

(***************************************************************************)
(* main, lines 30-73: initialization                                       *)
(***************************************************************************)
\* lines 31-34
CheckArgs ==
    /\ pc = "args"
    /\ \/ pc' = "load" /\ exit' = exit
       \/ pc' = "exited" /\ exit' = Returned(-1)
    /\ UNCHANGED <<locals, shmExists, shm, attached, rdr, fnWrites, prevRec>>

\* lines 38-45: readNetFromDarknet throws when the model files cannot be
\* read; nothing catches it and the process is aborted.
LoadModel ==
    /\ pc = "load"
    /\ \/ pc' = "open" /\ exit' = exit
       \/ pc' = "aborted" /\ exit' = Signaled(6)
    /\ UNCHANGED <<locals, shmExists, shm, attached, rdr, fnWrites, prevRec>>

\* OpenVideo with return 0 where the video cannot be opened
OpenVideoReturnsZero ==
    /\ pc = "open"
    /\ \/ pc' = "shmget" /\ exit' = exit
       \/ pc' = "exited" /\ exit' = Returned(0)
    /\ UNCHANGED <<locals, shmExists, shm, attached, rdr, fnWrites, prevRec>>

\* lines 47-55
OpenVideo ==
    /\ pc = "open"
    /\ \/ pc' = "shmget" /\ exit' = exit
       \/ pc' = "exited" /\ exit' = Returned(-1)
    /\ UNCHANGED <<locals, shmExists, shm, attached, rdr, fnWrites, prevRec>>

\* lines 57-63: shmget with IPC_CREAT finds the segment or creates it, filled
\* with zeros; or fails.
ShmGet ==
    /\ pc = "shmget"
    /\ \/ /\ pc' = "shmat" /\ exit' = exit
          /\ shmExists' = TRUE
          /\ shm' = IF shmExists THEN shm ELSE ZeroRecord
       \/ /\ pc' = "exited" /\ exit' = Returned(-1)
          /\ UNCHANGED <<shmExists, shm>>
    /\ UNCHANGED <<locals, attached, rdr, fnWrites, prevRec>>

\* lines 65-69
ShmAt ==
    /\ pc = "shmat"
    /\ \/ pc' = "memset" /\ exit' = exit /\ attached' = TRUE
       \/ pc' = "exited" /\ exit' = Returned(-1) /\ attached' = attached
    /\ UNCHANGED <<locals, shmExists, shm, rdr, fnWrites, prevRec>>

\* Memset left out: the segment keeps what it held
MemsetSkipped ==
    /\ pc = "memset"
    /\ pc' = "initflag"
    /\ UNCHANGED <<exit, locals, shmExists, shm, attached, rdr, fnWrites, prevRec>>

\* Memset over the two leading ints only (the size of a pointer, not of
\* the struct)
MemsetOnlyHeader ==
    /\ pc = "memset"
    /\ shm' = [shm EXCEPT !.frame_number = 0, !.num_detections = 0]
    /\ prevRec' = shm'
    /\ pc' = "initflag"
    /\ UNCHANGED <<exit, locals, shmExists, attached, rdr, fnWrites>>

\* line 72
Memset ==
    /\ pc = "memset"
    /\ shm' = ZeroRecord
    /\ prevRec' = ZeroRecord
    /\ pc' = "initflag"
    /\ UNCHANGED <<exit, locals, shmExists, attached, rdr, fnWrites>>

\* InitFlag storing true
InitFlagTrue ==
    /\ pc = "initflag"
    /\ shm' = [shm EXCEPT !.processing_complete = TRUE]
    /\ prevRec' = shm'
    /\ pc' = "read"
    /\ UNCHANGED <<exit, locals, shmExists, attached, rdr, fnWrites>>

\* line 73
InitFlag ==
    /\ pc = "initflag"
    /\ shm' = [shm EXCEPT !.processing_complete = FALSE]
    /\ prevRec' = shm'
    /\ pc' = "read"
    /\ UNCHANGED <<exit, locals, shmExists, attached, rdr, fnWrites>>

(***************************************************************************)
(* main, lines 85-150: the loop                                            *)
(***************************************************************************)
\* lines 86-87: cap >> frame; an empty frame ends the loop.  The video holds
\* at most MaxFrames frames.
ReadFrame ==
    /\ pc = "read"
    /\ \/ /\ decoded < MaxFrames
          /\ \E scene \in Scenes : frame' = scene
          /\ decoded' = decoded + 1
          /\ pc' = "infer"
       \/ /\ frame' = "empty"
          /\ decoded' = decoded
          /\ pc' = "mark"
    /\ UNCHANGED <<exit, frameCount, boxes, confidences, indices, i, fld,
                   shmExists, shm, attached, rdr, fnWrites, prevRec>>

\* Infer with 1.0 passed for nms_threshold: no overlap is too large
InferSuppressesNothing ==
    /\ pc = "infer"
    /\ frameCount' = NextFrameCount(frameCount)
    /\ boxes' = FilterBoxes(Frame(frame))
    /\ confidences' = FilterConfidences(Frame(frame))
    /\ indices' = NMSBoxes(boxes', confidences', confThreshold, 1000)
    /\ pc' = "frame_number"
    /\ UNCHANGED <<exit, decoded, frame, i, fld, shmExists, shm, attached, rdr,
                   fnWrites, prevRec>>

\* lines 89-130: count the frame, run the network, filter, suppress.
Infer ==
    /\ pc = "infer"
    /\ frameCount' = NextFrameCount(frameCount)
    /\ boxes' = FilterBoxes(Frame(frame))
    /\ confidences' = FilterConfidences(Frame(frame))
    /\ indices' = NMSBoxes(boxes', confidences', confThreshold, nmsThreshold)
    /\ pc' = "frame_number"
    /\ UNCHANGED <<exit, decoded, frame, i, fld, shmExists, shm, attached, rdr,
                   fnWrites, prevRec>>

\* InferThrows with line 133 moved up to line 89: the frame's number is in
\* the segment before inference runs
InferThrowsAfterNumbering ==
    /\ pc = "infer"
    /\ frameCount' = NextFrameCount(frameCount)
    /\ shm' = [shm EXCEPT !.frame_number = frameCount']
    /\ fnWrites' = Append(fnWrites, frameCount')
    /\ pc' = "aborted"
    /\ exit' = Signaled(6)
    /\ attached' = FALSE
    /\ UNCHANGED <<decoded, frame, boxes, confidences, indices, i, fld,
                   shmExists, rdr, prevRec>>

\* lines 89-97: net.forward (or blobFromImage) throws cv::Exception; nothing
\* catches it, so std::terminate aborts the process.  The kernel detaches
\* the segment.
InferThrows ==
    /\ pc = "infer"
    /\ frameCount' = NextFrameCount(frameCount)
    /\ pc' = "aborted"
    /\ exit' = Signaled(6)
    /\ attached' = FALSE
    /\ UNCHANGED <<decoded, frame, boxes, confidences, indices, i, fld,
                   shmExists, shm, rdr, fnWrites, prevRec>>

\* WriteFrameNumber counting from 0: the number is stored before the count
\* of line 89 is taken into account
WriteFrameNumberZeroBased ==
    /\ pc = "frame_number"
    /\ shm' = [shm EXCEPT !.frame_number = frameCount - 1]
    /\ fnWrites' = Append(fnWrites, frameCount - 1)
    /\ pc' = "num_detections"
    /\ UNCHANGED <<exit, locals, shmExists, attached, rdr, prevRec>>

\* line 133
WriteFrameNumber ==
    /\ pc = "frame_number"
    /\ shm' = [shm EXCEPT !.frame_number = frameCount]
    /\ fnWrites' = Append(fnWrites, frameCount)
    /\ pc' = "num_detections"
    /\ UNCHANGED <<exit, locals, shmExists, attached, rdr, prevRec>>

\* line 134, and line 136's size_t i = 0
WriteNumDetections ==
    /\ pc = "num_detections"
    /\ shm' = [shm EXCEPT !.num_detections = NumDetections(indices)]
    /\ i' = 0
    /\ fld' = 1
    /\ pc' = "boxes"
    /\ UNCHANGED <<exit, decoded, frame, frameCount, boxes, confidences, indices,
                   shmExists, attached, rdr, fnWrites, prevRec>>

\* lines 136-144: one store of the loop body; ++i behind the last one.  The
\* loop condition reads num_detections from the segment.
WriteBoxField ==
    /\ pc = "boxes"
    /\ i < shm.num_detections
    /\ shm' = [shm EXCEPT !.boxes[i + 1][Fields[fld]] =
                  FieldValue(i + 1, Fields[fld], indices, boxes, confidences)]
    /\ IF fld = Len(Fields)
       THEN i' = i + 1 /\ fld' = 1
       ELSE i' = i /\ fld' = fld + 1
    /\ UNCHANGED <<pc, exit, decoded, frame, frameCount, boxes, confidences,
                   indices, shmExists, attached, rdr, fnWrites, prevRec>>

\* EndBoxes followed by a loop that zeroes the entries from num_detections on
EndBoxesClearsRest ==
    /\ pc = "boxes"
    /\ ~(i < shm.num_detections)
    /\ shm' = [shm EXCEPT !.boxes = [k \in 1..CAPACITY |->
                                       IF k <= shm.num_detections THEN shm.boxes[k]
                                       ELSE ZeroBBox]]
    /\ prevRec' = shm'
    /\ pc' = "sleep"
    /\ UNCHANGED <<exit, locals, shmExists, attached, rdr, fnWrites>>

\* line 136: the loop condition fails
EndBoxes ==
    /\ pc = "boxes"
    /\ ~(i < shm.num_detections)
    /\ prevRec' = shm
    /\ pc' = "sleep"
    /\ UNCHANGED <<exit, locals, shmExists, shm, attached, rdr, fnWrites>>

\* LogAndSleep with line 153 inside the loop: every frame marks completion
LogAndSleepMarksComplete ==
    /\ pc = "sleep"
    /\ shm' = [shm EXCEPT !.processing_complete = TRUE]
    /\ pc' = "read"
    /\ UNCHANGED <<exit, locals, shmExists, attached, rdr, fnWrites, prevRec>>

\* lines 146-149
LogAndSleep ==
    /\ pc = "sleep"
    /\ pc' = "read"
    /\ UNCHANGED <<exit, locals, shmExists, shm, attached, rdr, fnWrites, prevRec>>

(***************************************************************************)
(* main, lines 152-166: completion                                         *)
(***************************************************************************)
\* lines 152-158
MarkComplete ==
    /\ pc = "mark"
    /\ shm' = [shm EXCEPT !.processing_complete = TRUE]
    /\ prevRec' = shm'
    /\ pc' = "detach"
    /\ UNCHANGED <<exit, locals, shmExists, attached, rdr, fnWrites>>

\* Detach followed by shmctl(shmid, IPC_RMID, NULL): the segment is removed
DetachAndRemove ==
    /\ pc = "detach"
    /\ attached' = FALSE
    /\ shmExists' = FALSE
    /\ shm' = ZeroRecord
    /\ pc' = "return"
    /\ UNCHANGED <<exit, locals, rdr, fnWrites, prevRec>>

\* lines 160-161: shmdt; the segment stays
Detach ==
    /\ pc = "detach"
    /\ attached' = FALSE
    /\ pc' = "return"
    /\ UNCHANGED <<exit, locals, shmExists, shm, rdr, fnWrites, prevRec>>

\* lines 163-166
Return ==
    /\ pc = "return"
    /\ pc' = "exited"
    /\ exit' = Returned(0)
    /\ UNCHANGED <<locals, shmExists, shm, attached, rdr, fnWrites, prevRec>>

(***************************************************************************)
(* The environment                                                         *)
(***************************************************************************)
\* A SIGINT (or any signal whose default action ends the process): main
\* installs no handler, so the process ends wherever it is and the kernel
\* detaches the segment.
Interrupt ==
    /\ exit = Running
    /\ pc' = "killed"
    /\ exit' = Signaled(2)
    /\ attached' = FALSE
    /\ UNCHANGED <<locals, shmExists, shm, rdr, fnWrites, prevRec>>

\* The consumer opens the segment once it exists.
ReaderAttach ==
    /\ rdr = "detached"
    /\ shmExists
    /\ rdr' = "polling"
    /\ UNCHANGED <<pc, exit, locals, shmExists, shm, attached, fnWrites, prevRec>>

\* One poll: the consumer reads the record; processing_complete tells it
\* that the stream has ended.
ReaderPoll ==
    /\ rdr = "polling"
    /\ rdr' = IF shm.processing_complete THEN "ended" ELSE "polling"
    /\ UNCHANGED <<pc, exit, locals, shmExists, shm, attached, fnWrites, prevRec>>

Next ==
    \/ CheckArgs
    \/ LoadModel
    \/ OpenVideo
    \/ ShmGet
    \/ ShmAt
    \/ Memset
    \/ InitFlag
    \/ ReadFrame
    \/ Infer
    \/ InferThrows
    \/ WriteFrameNumber
    \/ WriteNumDetections
    \/ WriteBoxField
    \/ EndBoxes
    \/ LogAndSleep
    \/ MarkComplete
    \/ Detach
    \/ Return
    \/ Interrupt
    \/ ReaderAttach
    \/ ReaderPoll

Spec == Init /\ [][Next]_vars

\* The steps of main
ProducerStep ==
    \/ CheckArgs
    \/ LoadModel
    \/ OpenVideo
    \/ ShmGet
    \/ ShmAt
    \/ Memset
    \/ InitFlag
    \/ ReadFrame
    \/ Infer
    \/ InferThrows
    \/ WriteFrameNumber
    \/ WriteNumDetections
    \/ WriteBoxField
    \/ EndBoxes
    \/ LogAndSleep
    \/ MarkComplete
    \/ Detach
    \/ Return

\* A run that no signal is sent to
NextRun ==
    \/ ProducerStep
    \/ ReaderAttach
    \/ ReaderPoll

\* The same, with the process scheduled: main does not stay for ever in
\* front of a statement it can execute (every call of the loop returns or
\* throws, usleep included).
FairSpec == Init /\ [][NextRun]_vars /\ WF_vars(ProducerStep)

(***************************************************************************)
(* Where main is                                                           *)
(***************************************************************************)
\* before the loop: the segment is not yet initialized
InitPcs == {"args", "load", "open", "shmget", "shmat", "memset", "initflag"}

\* the loop of lines 85-150
StreamPcs == {"read", "infer", "frame_number", "num_detections", "boxes", "sleep"}

\* The controller's phase: 1 Initializing, 2 Streaming, 3 Completed (line
\* 153 is next), 4 Closed (shmdt is next or done, or main has returned);
\* 5 for a process ended by a signal.
PhaseOf(p) ==
    CASE p \in InitPcs -> 1
      [] p \in StreamPcs -> 2
      [] p = "mark" -> 3
      [] p \in {"detach", "return", "exited"} -> 4
      [] OTHER -> 5

\* between the first and the last store of one frame's publish
PublishPcs == {"num_detections", "boxes"}

\* cap has delivered an empty frame: the loop is left
SourceExhausted == pc \in {"mark", "detach", "return"} \/ exit = Returned(0)

\* The detections the suppressor returned for the current frame, in its
\* order: boxes[indices[k]] with confidences[indices[k]].
SuppressorOutput ==
    [k \in 1..Len(indices) |->
        [x          |-> boxes[indices[k]].x,
         y          |-> boxes[indices[k]].y,
         width      |-> boxes[indices[k]].width,
         height     |-> boxes[indices[k]].height,
         confidence |-> confidences[indices[k]]]]

\* The record of the current frame, complete: what the publish in progress
\* leaves when it is done.
NewRecord == Published(prevRec, frameCount, indices, boxes, confidences)

(***************************************************************************)
(* C1.  Whenever the consumer can read the record while a frame's publish  *)
(* is under way, the record is either the previous complete record (the    *)
(* zeroed one before the first frame) or the new frame's complete record,  *)
(* never a mix of the two.                                                 *)
(* The code stores field by field with no marker: the statement fails.     *)
(***************************************************************************)
C1_NoMixedRecord ==
    (rdr = "polling" /\ pc \in PublishPcs) =>
        (shm = prevRec \/ shm = NewRecord)

(***************************************************************************)
(* C2.  In every state the consumer can read, each of the first            *)
(* num_detections entries is a detection of the frame num_detections was   *)
(* stored for.  num_detections is stored at line 134, before the entries:  *)
(* the statement fails while the loop of lines 136-144 runs.               *)
(***************************************************************************)
C2_CountMatchesEntries ==
    (rdr = "polling" /\ pc \in {"boxes", "sleep"}) =>
        \A k \in 1..shm.num_detections : shm.boxes[k] = SuppressorOutput[k]

(***************************************************************************)
(* C3.  Once the source is exhausted processing_complete is set, after     *)
(* every decoded frame has been published; it is set nowhere else; and     *)
(* once it is set in this run no field of the record changes again.        *)
(***************************************************************************)
C3_CompleteIsFinalWrite ==
    /\ [](((pc \in {"detach", "return"}) \/ (pc = "exited" /\ exit = Returned(0)))
             => (/\ shm.processing_complete
                 /\ frame = "empty"
                 /\ Len(fnWrites) = decoded
                 /\ shm.frame_number = decoded))
    /\ [][(shm'.processing_complete /\ ~shm.processing_complete)
             => (pc = "mark" /\ frame = "empty")]_vars
    /\ [][(shm.processing_complete /\ pc \notin InitPcs) => shm' = shm]_vars

\* A run of MaxFrames frames, the last with detections, has ended normally.
C3_Witness ==
    /\ pc = "exited"
    /\ exit = Returned(0)
    /\ shm.processing_complete
    /\ shm.frame_number = MaxFrames
    /\ shm.num_detections > 0

(***************************************************************************)
(* C4.  The values stored to frame_number are 1, 2, 3, ... in that order,  *)
(* one per decoded frame (the last decoded frame's value is missing only   *)
(* until its publish starts, or for good when the process ends before),    *)
(* and the frame_number in the segment never decreases.                    *)
(* As claimed, for every step of a run: fails at line 72, where memset     *)
(* resets the frame_number an earlier run left.                            *)
(***************************************************************************)
C4_FrameNumbersNeverDecrease ==
    /\ [](fnWrites = [k \in 1..Len(fnWrites) |-> k])
    /\ [](Len(fnWrites) <= decoded /\ decoded <= Len(fnWrites) + 1)
    /\ []((pc \in {"num_detections", "boxes", "sleep", "read", "mark", "detach", "return"})
             => Len(fnWrites) = decoded)
    /\ [][shm'.frame_number >= shm.frame_number]_vars

(***************************************************************************)
(* C4, amended: the same, with the frame_number in the segment never       *)
(* decreasing from the end of the initialization on (every step but the    *)
(* memset of line 72), and equal to the last value stored.                 *)
(***************************************************************************)
C4_FrameNumbersAscend ==
    /\ [](fnWrites = [k \in 1..Len(fnWrites) |-> k])
    /\ [](Len(fnWrites) <= decoded /\ decoded <= Len(fnWrites) + 1)
    /\ []((pc \in {"num_detections", "boxes", "sleep", "read", "mark", "detach", "return"})
             => (Len(fnWrites) = decoded /\ shm.frame_number = Len(fnWrites)))
    /\ [][pc # "memset" => shm'.frame_number >= shm.frame_number]_vars

\* The second frame's number has been stored over the first one's.
C4_Witness ==
    /\ pc = "num_detections"
    /\ fnWrites = <<1, 2>>
    /\ shm.frame_number = 2

(***************************************************************************)
(* C5.  num_detections is within 0..50 in every state, and from the store  *)
(* of line 134 on it is min(N, 50) for the N detections the suppressor     *)
(* returned for this frame, whatever the frames before published.          *)
(***************************************************************************)
C5_NumDetectionsIsCappedCount ==
    /\ shm.num_detections \in 0..CAPACITY
    /\ (pc \in {"boxes", "sleep", "read", "mark", "detach", "return"} /\ frameCount > 0)
          => shm.num_detections =
                IF Len(indices) > CAPACITY THEN CAPACITY ELSE Len(indices)

\* A frame without candidates is published behind one that filled the
\* record: the count is 0 and the last entry still holds the older frame's.
C5_Witness ==
    /\ pc = "sleep"
    /\ frameCount = 2
    /\ indices = << >>
    /\ shm.num_detections = 0
    /\ shm.boxes[CAPACITY].confidence > 0

(***************************************************************************)
(* C6.  Once a frame's publish is done, for the suppressor's output of     *)
(* size N: if N <= 50 the published detections are that output, in order;  *)
(* if N > 50 they are its first 50 elements, which are the 50 of greatest  *)
(* confidence, and num_detections = 50.                                    *)
(***************************************************************************)
PublishedDetections == SubSeq(shm.boxes, 1, shm.num_detections)

C7_FrameFailureIsSkipped ==
    [][(pc = "infer" /\ pc' # "killed") => pc' \in {"infer", "frame_number", "read"}]_vars

(***************************************************************************)
(* C8.  An interrupted run has set processing_complete and left no frame   *)
(* partly stored.  The code handles no signal: the process ends where it   *)
(* is, and the statement fails.                                            *)
(***************************************************************************)
C8_InterruptEndsCleanly ==
    (pc = "killed" /\ fnWrites # << >>) =>
        (shm.processing_complete /\ shm = prevRec)

(***************************************************************************)
(* C9.  Whatever an earlier run left in the segment, every field of the    *)
(* record is zero and processing_complete false from the end of the        *)
(* initialization until the first store of the first frame, and from the   *)
(* end of the initialization on processing_complete is true only once the  *)
(* source is exhausted.                                                    *)
(***************************************************************************)
C9_ZeroedBeforeFirstFrame ==
    /\ (pc \in {"read", "infer", "frame_number"} /\ fnWrites = << >>)
          => (shmExists /\ attached /\ shm = ZeroRecord)
    /\ (pc \notin InitPcs /\ exit = Running /\ shm.processing_complete)
          => SourceExhausted

(***************************************************************************)
(* C9 as claimed: the same, and a consumer attached to the segment never   *)
(* reads processing_complete = true while this run is under way and has    *)
(* not exhausted its source.  Fails until line 72 has run, on a segment    *)
(* that an earlier run left complete.                                      *)
(***************************************************************************)
C9_NeverCompleteBeforeExhausted ==
    /\ C9_ZeroedBeforeFirstFrame
    /\ (rdr = "polling" /\ exit = Running /\ shm.processing_complete)
          => SourceExhausted

\* The consumer has read an earlier run's processing_complete; the detector
\* has since zeroed the segment and is about to store its first frame.
C9_Witness ==
    /\ rdr = "ended"
    /\ pc = "frame_number"
    /\ fnWrites = << >>
    /\ shm = ZeroRecord

(***************************************************************************)
(* C10.  main returns only at its end, with status 0, or from a failed     *)
(* initialization step (arguments, video, shmget, shmat), with a non-zero  *)
(* status, before the loop, with nothing stored to the segment; a run      *)
(* whose initialization succeeded and whose source is exhausted returns 0. *)
(***************************************************************************)
C10_ExitStatus ==
    /\ [][pc' = "exited" /\ pc # "exited" =>
             IF pc = "return"
             THEN /\ exit'.how = "return"
                  /\ exit'.code = 0
                  /\ shm.processing_complete
                  /\ Len(fnWrites) = decoded
             ELSE /\ pc \in {"args", "open", "shmget", "shmat"}
                  /\ exit'.how = "return"
                  /\ exit'.code # 0
                  /\ fnWrites = << >> /\ decoded = 0 /\ frameCount = 0
                  /\ shm' = prevRec
                  /\ ~attached']_vars
    /\ [][(pc \in {"open", "shmget", "shmat"} /\ pc' \notin {pc, "killed"})
             => \/ pc' = "exited" /\ exit'.code # 0
                \/ pc' \in InitPcs /\ exit' = Running]_vars

\* Both ends: a run that stored frames has returned 0.
C10_Witness ==
    /\ pc = "exited"
    /\ exit.code = 0
    /\ fnWrites # << >>
    /\ shm.processing_complete

C12_PhasesInOrderUntilClosed ==
    /\ [][PhaseOf(pc') >= PhaseOf(pc)]_vars
    /\ [][(\/ shm'.frame_number # shm.frame_number
           \/ shm'.num_detections # shm.num_detections
           \/ shm'.boxes # shm.boxes)
             => (pc = "memset" \/ (pc \in StreamPcs /\ ~shm.processing_complete))]_vars
    /\ [][(shm'.processing_complete /\ ~shm.processing_complete)
             => (pc = "mark" /\ pc' = "detach")]_vars
    /\ [](PhaseOf(pc) = 4 /\ exit \in {Running, Returned(0)} => shm.processing_complete)
    /\ [](exit # Running /\ decoded > 0 => pc = "exited" /\ exit = Returned(0))

(***************************************************************************)
(* C13.  Whenever the region holds a record as a completed publish (or the *)
(* initialization) left it, that is, no publish is in progress or was cut  *)
(* short, every entry below num_detections has a confidence strictly above *)
(* confThreshold.  And in every state, a publish under way included, the   *)
(* confidence of any entry is either the 0 of the initialization or above  *)
(* confThreshold: no candidate at or below the threshold is ever stored.   *)
(***************************************************************************)
C13_PublishedAboveThreshold ==
    /\ shm = prevRec =>
          \A k \in 1..shm.num_detections : shm.boxes[k].confidence > confThreshold
    /\ \A k \in 1..CAPACITY :
          shm.boxes[k].confidence = 0 \/ shm.boxes[k].confidence > confThreshold

\* A frame with a 'person' candidate scored exactly confThreshold, one below
\* it and one of another class has been published: three entries, none of
\* them that candidate's.
C13_Witness ==
    /\ pc = "sleep"
    /\ shm = prevRec
    /\ shm.frame_number = frameCount
    /\ shm.num_detections = 3
    /\ \E r \in 1..Len(Frame(frame).outs) :
          /\ ClassId(Frame(frame).outs[r].scores) = 0
          /\ Confidence(Frame(frame).outs[r].scores) = confThreshold
          /\ \A k \in 1..shm.num_detections :
                Rect(shm.boxes[k].x, shm.boxes[k].y, shm.boxes[k].width, shm.boxes[k].height)
                    # RowRect(Frame(frame).outs[r], Frame(frame))

(***************************************************************************)
(* C14 as claimed.  Once a frame's publish is done no entry of the region  *)
(* carries data of an earlier frame.  The entries below num_detections     *)
(* have just been stored for this frame; line 72 zeroed all 50 and only    *)
(* the loop of lines 136-144 stores to them, with a confidence above 0, so *)
(* an entry from num_detections on carries an earlier frame's data exactly *)
(* when it is not zero.                                                    *)
(***************************************************************************)
C14_NoHistory ==
    pc = "sleep" =>
        /\ shm.frame_number = frameCount
        /\ \A k \in (shm.num_detections + 1)..CAPACITY : shm.boxes[k] = ZeroBBox

(***************************************************************************)
(* C14.  The publish of frame k stores frame_number, num_detections and    *)
(* the entries below num_detections and nothing else: when it is done the  *)
(* record is frame k's result over those entries, and every entry from     *)
(* num_detections on is as it was before the publish (zero, or what an     *)
(* earlier frame of this run stored there).                                *)
(***************************************************************************)
C14_LatestOverOlderEntries ==
    /\ [][(pc = "boxes" /\ pc' = "sleep") =>
             (/\ shm' = NewRecord
              /\ \A k \in (shm'.num_detections + 1)..CAPACITY :
                    shm'.boxes[k] = prevRec.boxes[k])]_vars
    /\ [][\A k \in 1..CAPACITY :
             shm'.boxes[k] # shm.boxes[k] =>
                 \/ pc = "memset"
                 \/ pc = "boxes" /\ k = i + 1 /\ k <= shm.num_detections]_vars

\* The second frame, with no detection, has been published and the first
\* entry still holds a detection of the first frame.
C14_Witness ==
    /\ pc = "sleep"
    /\ shm.frame_number = 2
    /\ shm.num_detections = 0
    /\ shm.boxes[1].confidence > confThreshold
    /\ shm.boxes[1] = prevRec.boxes[1]

(***************************************************************************)
(* C15.  Once a frame's publish is done, any two of its published          *)
(* detections overlap by at most nmsThreshold (area of the intersection    *)
(* over area of the union, in thousandths), and the detections are in      *)
(* descending order of confidence.                                         *)
(***************************************************************************)
C15_SurvivorsApartAndDescending ==
    pc = "sleep" =>
        \A j \in 1..shm.num_detections : \A k \in (j + 1)..shm.num_detections :
            LET a     == shm.boxes[j]
                b     == shm.boxes[k]
                w     == Min(a.x + a.width, b.x + b.width) - Max(a.x, b.x)
                h     == Min(a.y + a.height, b.y + b.height) - Max(a.y, b.y)
                inter == IF w > 0 /\ h > 0 THEN w * h ELSE 0
                union == a.width * a.height + b.width * b.height - inter
            IN  /\ union > 0
                /\ inter * 1000 <= nmsThreshold * union
                /\ a.confidence >= b.confidence

\* A frame has been published in which one candidate was suppressed and
\* two of the survivors overlap, by no more than nmsThreshold.
C15_Witness ==
    /\ pc = "sleep"
    /\ Len(indices) < Len(boxes)
    /\ shm.num_detections = Len(indices)
    /\ \E j \in 1..shm.num_detections : \E k \in (j + 1)..shm.num_detections :
          /\ RectArea(RectAnd(Rect(shm.boxes[j].x, shm.boxes[j].y,
                                   shm.boxes[j].width, shm.boxes[j].height),
                              Rect(shm.boxes[k].x, shm.boxes[k].y,
                                   shm.boxes[k].width, shm.boxes[k].height))) > 0
          /\ shm.boxes[j].confidence > shm.boxes[k].confidence

(***************************************************************************)
(* C16.  A failure of inference on frame k stores nothing: the step leaves *)
(* the region as the publish of frame k-1 (the initialization, for k = 1)  *)
(* left it, and so it stays: frame_number is k-1, the entries are frame    *)
(* k-1's detections, processing_complete is false.  frame_number is stored *)
(* only behind a successful inference, so k is never stored.               *)
(***************************************************************************)
C16_InferenceFailureStoresNothing ==
    /\ [][(pc = "infer" /\ pc' = "aborted") => (shm' = shm /\ shm = prevRec)]_vars
    /\ [][shm'.frame_number # shm.frame_number =>
             (pc = "memset" \/ (pc = "frame_number" /\ shm'.frame_number = frameCount))]_vars
    /\ []((pc = "aborted" /\ decoded > 0) =>
             (/\ shm = prevRec
              /\ frameCount = decoded
              /\ shm.frame_number = frameCount - 1
              /\ \A n \in 1..Len(fnWrites) : fnWrites[n] # frameCount
              /\ ~shm.processing_complete
              /\ IF decoded = 1 THEN shm = ZeroRecord
                 ELSE PublishedDetections
                          = SubSeq(SuppressorOutput, 1, NumDetections(indices))))

\* Inference has failed on the second frame; the region holds the first
\* frame's record, with detections.
C16_Witness ==
    /\ pc = "aborted"
    /\ decoded = 2
    /\ frameCount = 2
    /\ shm.frame_number = 1
    /\ shm.num_detections > 0

\* The loop is over and the region holds the record of the last decoded
\* frame, complete (the zeroed record when no frame was decoded).
FinalRecord ==
    /\ pc \in {"detach", "return", "exited"}
    /\ shm = prevRec
    /\ shm.frame_number = decoded
    /\ shm.num_detections = NumDetections(indices)
    /\ PublishedDetections = SubSeq(SuppressorOutput, 1, NumDetections(indices))

C18_EmptySourceLeavesZeroRecord ==
    /\ []((SourceExhausted /\ decoded = 0) =>
             (/\ fnWrites = << >>
              /\ frameCount = 0
              /\ shmExists
              /\ shm = [ZeroRecord EXCEPT !.processing_complete = (pc # "mark")]
              /\ attached = (pc \in {"mark", "detach"})
              /\ pc # "exited" => ENABLED (MarkComplete \/ Detach \/ Return)))
    /\ [][(decoded = 0 /\ pc = "read" /\ pc' # pc /\ exit' = Running /\ decoded' = 0)
             => pc' = "mark"]_vars
    /\ [][(SourceExhausted /\ decoded = 0 /\ pc' # pc /\ pc' # "killed") =>
             \/ pc = "mark" /\ pc' = "detach"
             \/ pc = "detach" /\ pc' = "return"
             \/ pc = "return" /\ pc' = "exited" /\ exit' = Returned(0)]_vars

\* The detector has returned 0 on a video without frames.
C18_Witness ==
    /\ pc = "exited"
    /\ exit = Returned(0)
    /\ decoded = 0
    /\ shm.processing_complete
    /\ shm.frame_number = 0
    /\ ~attached

====
